---- MODULE Spec2Model ----
(***************************************************************************)
(* nvwebtop (src/app.py): a background thread polls nvidia-smi once a      *)
(* second and appends to the global `history` dict; Flask handlers read    *)
(* `history` (/api/data) or run nvidia-smi themselves (/api/stats,         *)
(* /api/processes, the index page).                                        *)
(*                                                                         *)
(* Text is a sequence of one-character strings, so that strip(), split()   *)
(* and int() are computed as Python computes them.                         *)
(***************************************************************************)
EXTENDS Integers, Sequences, FiniteSets, TLC

VARIABLES
    history,        \* the global dict of three lists (src/app.py:13-17)
    sampler,        \* the background thread: its position and its locals
    clock,          \* what time.time() returns
    iter,           \* iterations of the sampler loop begun so far
    appended,       \* every sample whose three appends have completed, in order
    iterStart,      \* `history` as it was when the current iteration began
    reader,         \* an /api/data request: its position and what it has read;
                    \* quiet: no sampler iteration has run since it began
    stats,          \* an /api/stats request: the command's outcome, the response
    procs,          \* an /api/processes request: the same
    page,           \* a request for the index page: the same
    stopRequested,  \* the process has been told to shut down
    lateIter,       \* an iteration began after the shutdown request
    alive           \* the process (and with it the daemon thread) still runs

vars == <<history, sampler, clock, iter, appended, iterStart,
          reader, stats, procs, page, stopRequested, lateIter, alive>>

(* ------------------------------ bounds -------------------------------- *)

\* Length of the history window.  The program keeps 60 entries
\* (src/app.py:49 and :51); the model is checked with a shorter window.
Capacity == 2

\* Iterations of the sampler loop (`while True`) that a behaviour explores.
MaxIter == 4

\* Fields the snapshot query asks for (src/app.py:415).
StatsFields == 5

\* Fields the process query asks for (src/app.py:86).
ProcFields == 3

(* --------------------------- text helpers ----------------------------- *)

Min(S) == CHOOSE x \in S : \A y \in S : x <= y

Max(S) == CHOOSE x \in S : \A y \in S : x >= y

\* Characters str.strip() removes that occur in the inputs of the model.
Whitespace == {" ", "\n", "\t", "\r"}

Digits == <<"0", "1", "2", "3", "4", "5", "6", "7", "8", "9">>

NL == <<"\n">>

Sep == <<",", " ">>

\* str.strip(): drop leading and trailing whitespace.
Strip(s) ==
    LET keep == {i \in 1..Len(s) : s[i] \notin Whitespace}
    IN  IF keep = {} THEN <<>> ELSE SubSeq(s, Min(keep), Max(keep))

StartsAt(s, i, sep) ==
    /\ i + Len(sep) - 1 <= Len(s)
    /\ SubSeq(s, i, i + Len(sep) - 1) = sep

\* str.split(sep) for a non-empty separator: always at least one piece.
RECURSIVE Split(_, _)
Split(s, sep) ==
    LET at == {i \in 1..Len(s) : StartsAt(s, i, sep)}
    IN  IF at = {} THEN <<s>>
        ELSE <<SubSeq(s, 1, Min(at) - 1)>>
                 \o Split(SubSeq(s, Min(at) + Len(sep), Len(s)), sep)

DigitValue(c) == (CHOOSE i \in 1..10 : Digits[i] = c) - 1

IsDigits(s) == Len(s) > 0 /\ \A i \in 1..Len(s) : \E d \in 1..10 : Digits[d] = s[i]

RECURSIVE DigitsValue(_)
DigitsValue(s) ==
    IF s = <<>> THEN 0
    ELSE 10 * DigitsValue(SubSeq(s, 1, Len(s) - 1)) + DigitValue(s[Len(s)])

\* int(str): surrounding whitespace is ignored, one sign is allowed, the rest
\* must be decimal digits.  (The inputs of the model hold no "_".)
IntBody(s) ==
    LET t == Strip(s)
    IN  IF t # <<>> /\ t[1] \in {"+", "-"} THEN Tail(t) ELSE t

IsInt(s) == IsDigits(IntBody(s))

int(s) ==
    LET t == Strip(s)
    IN  IF t # <<>> /\ t[1] = "-" THEN 0 - DigitsValue(IntBody(s))
        ELSE DigitsValue(IntBody(s))

(* ---------------------- rationals for used/total*100 ------------------- *)

Abs(x) == IF x < 0 THEN 0 - x ELSE x

RECURSIVE GCD(_, _)
GCD(a, b) == IF b = 0 THEN a ELSE GCD(b, a % b)

\* The value num/den in lowest terms, den > 0.
Ratio(num, den) ==
    LET g == GCD(Abs(num), Abs(den))
        sg == IF den < 0 THEN 0 - 1 ELSE 1
    IN  [num |-> sg * (num \div g), den |-> sg * (den \div g)]

\* As Percent without the factor: used_mem / total_mem
Fraction(used_mem, total_mem) == Ratio(used_mem, total_mem)

\* (used_mem / total_mem) * 100, total_mem # 0
Percent(used_mem, total_mem) == Ratio(used_mem * 100, total_mem)

(* ------------------------------ inputs -------------------------------- *)

RECURSIVE Csv(_)
Csv(fields) ==
    IF Len(fields) = 1 THEN fields[1]
    ELSE fields[1] \o Sep \o Csv(Tail(fields))

Line(fields) == Csv(fields) \o NL

F0 == <<"0">>
F40 == <<"4", "0">>
F50 == <<"5", "0">>
F75 == <<"7", "5">>
F100 == <<"1", "0", "0">>
F2048 == <<"2", "0", "4", "8">>
F4096 == <<"4", "0", "9", "6">>
F8192 == <<"8", "1", "9", "2">>
FNA == <<"[", "N", "/", "A", "]">>
FErr == <<"E", "R", "R">>

\* What subprocess.run(...) can do: raise (the command cannot be started),
\* never return, or return a CompletedProcess with stdout and returncode.
Raised == [kind |-> "raise", stdout |-> <<>>, returncode |-> 0]

Hung == [kind |-> "hang", stdout |-> <<>>, returncode |-> 0]

Unset == [kind |-> "unset", stdout |-> <<>>, returncode |-> 0]

Returned(out, rc) == [kind |-> "returned", stdout |-> out, returncode |-> rc]

\* Fields of the snapshot query's output line.
StatsTokens == {F0, F50, F100, FNA}

RECURSIVE FieldSeqs(_)
FieldSeqs(n) ==
    IF n = 0 THEN {<<>>}
    ELSE {Append(fs, t) : fs \in FieldSeqs(n - 1), t \in StatsTokens}

\* Outputs of the snapshot query (utilization.gpu, memory.total, memory.used,
\* memory.free, temperature.gpu): one line of one to five fields, no output,
\* two lines, a blank line first.
StatsStdouts ==
    {Line(fs) : fs \in UNION {FieldSeqs(n) : n \in 1..StatsFields}}
        \cup { <<>>,
               Line(<<F50, F100, F50, F50, F50>>) \o Line(<<FNA>>),
               NL \o Line(<<F50, F100, F50, F50, F50>>) }

StatsOutcomes ==
    {Raised, Hung} \cup {Returned(out, rc) : out \in StatsStdouts, rc \in {0, 1}}

\* Outputs of the history query (utilization.gpu, memory.total, memory.used).
GoodA == Line(<<F40, F100, F50>>)

GoodB == Line(<<F75, F8192, F2048>>)

SamplerStdouts ==
    { GoodA, GoodB,
      GoodA \o GoodB,                         \* two GPUs: two lines
      <<>>,                                   \* no output
      Line(<<F40, F100>>),                    \* a field is missing
      Line(<<FNA, F100, F50>>),               \* utilization is not a number
      Line(<<F40, FNA, F50>>),                \* total is not a number
      Line(<<F40, F100, FNA>>),               \* used is not a number
      Line(<<F40, F0, F50>>),                 \* total is zero
      Line(<<FErr>>) \o GoodA,                \* unusable first line
      NL \o GoodA }                           \* a blank line comes first

SamplerOutcomes ==
    {Raised, Hung}
        \cup {Returned(out, 0) : out \in SamplerStdouts}
        \cup {Returned(Line(<<FErr>>), 1), Returned(GoodA, 1)}

\* Memory totals and amounts in use, for the percentage.
CalcTokens == {F0, F50, F100, F2048, F4096, F8192}

\* Outputs of the history query with these memory fields.
CalcStdouts == {Line(<<F40, t, u>>) : t \in CalcTokens, u \in CalcTokens}

\* Outputs of the snapshot query with these memory fields.
CalcStatsStdouts ==
    {Line(<<F40, t, u, F50, F50>>) : t \in CalcTokens, u \in CalcTokens}

(* ----------------------------- the state ------------------------------ *)

\* history.keys(), in insertion order (src/app.py:13-17)
Keys == <<"timestamps", "gpu_util", "used_mem_percent">>

KeySet == {Keys[i] : i \in 1..Len(Keys)}

EmptyHistory == [k \in KeySet |-> <<>>]

\* The sampler thread at the top of `while True`.
SamplerIdle ==
    [pc |-> "run", result |-> Unset, exc |-> "none", gpu_util |-> 0,
     used_mem_percent |-> Ratio(0, 1), timestamp |-> 0, key |-> 1]

\* No request of the kind is being served.
StatsIdle == [pc |-> "idle", result |-> Unset, exc |-> "none", resp |-> <<>>]

Init ==
    /\ history = EmptyHistory
    /\ sampler = SamplerIdle
    /\ clock = 1
    /\ iter = 0
    /\ appended = <<>>
    /\ iterStart = EmptyHistory
    /\ reader = [pc |-> "idle", resp |-> <<>>, quiet |-> FALSE]
    /\ stats = StatsIdle
    /\ procs = StatsIdle
    /\ page = StatsIdle
    /\ stopRequested = FALSE
    /\ lateIter = FALSE
    /\ alive = TRUE

(* ----------------------- fetch_gpu_data: parsing ----------------------- *)

\* As FirstLineFields, on the last line: ...split("\n")[-1].split(", ")
LastLineFields(stdout) ==
    LET lines == Split(Strip(stdout), NL) IN Split(lines[Len(lines)], Sep)

\* result.stdout.strip().split("\n")[0].split(", ")
FirstLineFields(stdout) == Split(Split(Strip(stdout), NL)[1], Sep)

\* As ParseSample, with a zero total reported as 0 percent instead of raising.
ParseSampleZeroTotal(stdout) ==
    LET gpu_data == FirstLineFields(stdout)
        fail(e) == [exc |-> e, gpu_util |-> 0, used_mem_percent |-> Ratio(0, 1)]
    IN  IF ~IsInt(gpu_data[1]) THEN fail("ValueError")
        ELSE IF Len(gpu_data) < 2 THEN fail("IndexError")
        ELSE IF ~IsInt(gpu_data[2]) THEN fail("ValueError")
        ELSE IF Len(gpu_data) < 3 THEN fail("IndexError")
        ELSE IF ~IsInt(gpu_data[3]) THEN fail("ValueError")
        ELSE [exc |-> "none",
              gpu_util |-> int(gpu_data[1]),
              used_mem_percent |->
                  IF int(gpu_data[2]) = 0 THEN Ratio(0, 1)
                  ELSE Percent(int(gpu_data[3]), int(gpu_data[2]))]

\* Lines 35-40: the exception the parse raises ("none" if it succeeds) and,
\* on success, the values of the locals gpu_util and used_mem_percent.
ParseSample(stdout) ==
    LET gpu_data == FirstLineFields(stdout)
        fail(e) == [exc |-> e, gpu_util |-> 0, used_mem_percent |-> Ratio(0, 1)]
    IN  IF ~IsInt(gpu_data[1]) THEN fail("ValueError")
        ELSE IF Len(gpu_data) < 2 THEN fail("IndexError")
        ELSE IF ~IsInt(gpu_data[2]) THEN fail("ValueError")
        ELSE IF Len(gpu_data) < 3 THEN fail("IndexError")
        ELSE IF ~IsInt(gpu_data[3]) THEN fail("ValueError")
        ELSE IF int(gpu_data[2]) = 0 THEN fail("ZeroDivisionError")
        ELSE [exc |-> "none",
              gpu_util |-> int(gpu_data[1]),
              used_mem_percent |-> Percent(int(gpu_data[3]), int(gpu_data[2]))]

\* As LastN, keeping the oldest entries: history[key][:60]
LastNKeepsOldest(s) == IF Len(s) <= Capacity THEN s ELSE SubSeq(s, 1, Capacity)

\* ParseSample on every output the command can print, computed once.
ParsedSample ==
    [out \in {o.stdout : o \in SamplerOutcomes} \cup CalcStdouts |-> ParseSample(out)]

\* As LastN, one entry short: history[key][-59:]
LastNOneShort(s) ==
    IF Len(s) < Capacity THEN s ELSE SubSeq(s, Len(s) - Capacity + 2, Len(s))

\* As Overfull, one entry late: len(history["timestamps"]) > 61
OverfullOneLate(h) == Len(h["timestamps"]) > Capacity + 1

\* history[key][-60:]
LastN(s) == IF Len(s) <= Capacity THEN s ELSE SubSeq(s, Len(s) - Capacity + 1, Len(s))

\* len(history["timestamps"]) > 60
Overfull(h) == Len(h["timestamps"]) > Capacity

(* ---------------------- fetch_gpu_data: the loop ----------------------- *)

\* Lines 24-34: an iteration begins with subprocess.run, which returns a
\* CompletedProcess, raises, or (no timeout= is passed) never returns.
SamplerRun ==
    /\ alive /\ sampler.pc = "run" /\ iter < MaxIter
    /\ \E o \in SamplerOutcomes :
          sampler' = CASE o.kind = "raise" ->
                            [sampler EXCEPT !.pc = "except", !.exc = "OSError"]
                       [] o.kind = "hang" ->
                            [sampler EXCEPT !.pc = "hung", !.exc = "none"]
                       [] OTHER ->
                            [sampler EXCEPT !.pc = "parse", !.exc = "none",
                                            !.result = o]
    /\ iter' = iter + 1
    /\ iterStart' = history
    /\ lateIter' = (lateIter \/ stopRequested)
    /\ reader' = [reader EXCEPT !.quiet = FALSE]
    /\ UNCHANGED <<procs, page, history, clock, appended, stats, stopRequested, alive>>

\* Lines 35-40
SamplerParse ==
    /\ alive /\ sampler.pc = "parse"
    /\ LET p == ParsedSample[sampler.result.stdout]
       IN  sampler' = IF p.exc # "none"
                      THEN [sampler EXCEPT !.pc = "except", !.exc = p.exc]
                      ELSE [sampler EXCEPT !.pc = "append_ts",
                                           !.gpu_util = p.gpu_util,
                                           !.used_mem_percent = p.used_mem_percent]
    /\ UNCHANGED <<procs, page, history, clock, iter, appended, iterStart, reader, stats,
                   stopRequested, lateIter, alive>>

\* As SamplerAppendTs with the new timestamp put in front of the series.
SamplerAppendTsAtFront ==
    /\ alive /\ sampler.pc = "append_ts"
    /\ sampler' = [sampler EXCEPT !.pc = "append_util", !.timestamp = clock]
    /\ history' = [history EXCEPT !["timestamps"] = <<clock>> \o @]
    /\ UNCHANGED <<procs, page, clock, iter, appended, iterStart, reader, stats,
                   stopRequested, lateIter, alive>>

\* Lines 43-44
SamplerAppendTs ==
    /\ alive /\ sampler.pc = "append_ts"
    /\ sampler' = [sampler EXCEPT !.pc = "append_util", !.timestamp = clock]
    /\ history' = [history EXCEPT !["timestamps"] = Append(@, clock)]
    /\ UNCHANGED <<procs, page, clock, iter, appended, iterStart, reader, stats,
                   stopRequested, lateIter, alive>>

\* Line 45
SamplerAppendUtil ==
    /\ alive /\ sampler.pc = "append_util"
    /\ sampler' = [sampler EXCEPT !.pc = "append_mem"]
    /\ history' = [history EXCEPT !["gpu_util"] = Append(@, sampler.gpu_util)]
    /\ UNCHANGED <<procs, page, clock, iter, appended, iterStart, reader, stats,
                   stopRequested, lateIter, alive>>

\* Line 46
SamplerAppendMem ==
    /\ alive /\ sampler.pc = "append_mem"
    /\ sampler' = [sampler EXCEPT !.pc = "check"]
    /\ history' = [history EXCEPT
                      !["used_mem_percent"] = Append(@, sampler.used_mem_percent)]
    /\ appended' = Append(appended, [timestamp |-> sampler.timestamp,
                                     gpu_util |-> sampler.gpu_util,
                                     used_mem_percent |-> sampler.used_mem_percent])
    /\ UNCHANGED <<procs, page, clock, iter, iterStart, reader, stats,
                   stopRequested, lateIter, alive>>

\* Line 49
SamplerCheck ==
    /\ alive /\ sampler.pc = "check"
    /\ sampler' = IF Overfull(history)
                  THEN [sampler EXCEPT !.pc = "trunc", !.key = 1]
                  ELSE [sampler EXCEPT !.pc = "sleep"]
    /\ UNCHANGED <<procs, page, history, clock, iter, appended, iterStart, reader, stats,
                   stopRequested, lateIter, alive>>

\* Lines 50-51: one pass of `for key in history.keys()`
SamplerTrunc ==
    /\ alive /\ sampler.pc = "trunc"
    /\ history' = [history EXCEPT ![Keys[sampler.key]] = LastN(@)]
    /\ sampler' = IF sampler.key < Len(Keys)
                  THEN [sampler EXCEPT !.key = @ + 1]
                  ELSE [sampler EXCEPT !.pc = "sleep", !.key = 1]
    /\ UNCHANGED <<procs, page, clock, iter, appended, iterStart, reader, stats,
                   stopRequested, lateIter, alive>>

\* As SamplerExcept with `except ValueError`: any other exception leaves
\* the loop and ends the thread.
SamplerExceptValueErrorOnly ==
    /\ alive /\ sampler.pc = "except"
    /\ sampler' = IF sampler.exc = "ValueError"
                  THEN [sampler EXCEPT !.pc = "sleep"]
                  ELSE [sampler EXCEPT !.pc = "dead"]
    /\ UNCHANGED <<procs, page, history, clock, iter, appended, iterStart, reader, stats,
                   stopRequested, lateIter, alive>>

\* Lines 52-53: `except Exception` prints and falls through to the sleep
SamplerExcept ==
    /\ alive /\ sampler.pc = "except"
    /\ sampler' = [sampler EXCEPT !.pc = "sleep"]
    /\ UNCHANGED <<procs, page, history, clock, iter, appended, iterStart, reader, stats,
                   stopRequested, lateIter, alive>>

\* Line 56: time.sleep(1), then the top of `while True`.  Every local is
\* assigned again before the next iteration reads it: the model forgets them.
SamplerSleep ==
    /\ alive /\ sampler.pc = "sleep"
    /\ sampler' = SamplerIdle
    /\ clock' = clock + 1
    /\ UNCHANGED <<procs, page, history, iter, appended, iterStart, reader, stats,
                   stopRequested, lateIter, alive>>

SamplerNext ==
    \/ SamplerRun
    \/ SamplerParse
    \/ SamplerAppendTs
    \/ SamplerAppendUtil
    \/ SamplerAppendMem
    \/ SamplerCheck
    \/ SamplerTrunc
    \/ SamplerExcept
    \/ SamplerSleep

(* ------------------------- api_data (/api/data) ------------------------ *)

\* A request arrives.
ReadBegin ==
    /\ alive /\ reader.pc = "idle"
    /\ reader' = [pc |-> "reading", resp |-> <<>>,
                  quiet |-> sampler.pc \in {"run", "sleep"}]
    /\ UNCHANGED <<procs, page, history, sampler, clock, iter, appended, iterStart, stats,
                   stopRequested, lateIter, alive>>

\* As ReadKey, taking the entries out of the list it serialises.
ReadKeyDrains ==
    /\ alive /\ reader.pc = "reading"
    /\ \E k \in KeySet \ DOMAIN reader.resp :
          LET r == (k :> history[k]) @@ reader.resp
          IN  /\ reader' = [reader EXCEPT
                               !.resp = r,
                               !.pc = IF DOMAIN r = KeySet THEN "done" ELSE "reading"]
              /\ history' = [history EXCEPT ![k] = <<>>]
    /\ UNCHANGED <<procs, page, sampler, clock, iter, appended, iterStart, stats,
                   stopRequested, lateIter, alive>>

\* Line 402: jsonify(history) serialises the dict one list after the other,
\* in an order the handler does not fix; the sampler thread can run between
\* two of them.  Each list is read in one step.
ReadKey ==
    /\ alive /\ reader.pc = "reading"
    /\ \E k \in KeySet \ DOMAIN reader.resp :
          LET r == (k :> history[k]) @@ reader.resp
          IN  reader' = [reader EXCEPT
                            !.resp = r,
                            !.pc = IF DOMAIN r = KeySet THEN "done" ELSE "reading"]
    /\ UNCHANGED <<procs, page, history, sampler, clock, iter, appended, iterStart, stats,
                   stopRequested, lateIter, alive>>

\* The response has been sent.
ReadReturn ==
    /\ alive /\ reader.pc = "done"
    /\ reader' = [pc |-> "idle", resp |-> <<>>, quiet |-> FALSE]
    /\ UNCHANGED <<procs, page, history, sampler, clock, iter, appended, iterStart, stats,
                   stopRequested, lateIter, alive>>

ReaderNext == ReadBegin \/ ReadKey \/ ReadReturn

(* ----------------------- process shutdown (450-455) -------------------- *)

\* The main thread leaves app.run(); nothing tells the sampler thread.
RequestStop ==
    /\ alive /\ ~stopRequested
    /\ stopRequested' = TRUE
    /\ UNCHANGED <<procs, page, history, sampler, clock, iter, appended, iterStart, reader,
                   stats, lateIter, alive>>

\* The interpreter exits; the daemon thread ends wherever it is.
ProcessExit ==
    /\ alive /\ stopRequested
    /\ alive' = FALSE
    /\ UNCHANGED <<procs, page, history, sampler, clock, iter, appended, iterStart, reader,
                   stats, stopRequested, lateIter>>

\* The sampler thread and /api/data requests, which share `history`.
Next == SamplerNext \/ ReaderNext

Spec == Init /\ [][Next]_vars

\* The sampler thread and the shutdown of the process.  The thread runs
\* whenever it can: it is never starved by the scheduler.
LoopNext == SamplerNext \/ RequestStop \/ ProcessExit

LoopSpec == Init /\ [][LoopNext]_vars /\ WF_vars(SamplerNext)

(* ------------------------ api_stats (/api/stats) ----------------------- *)

\* As ParseStats, with a field the line lacks read as the empty string.
ParseStatsPadsShortLine(stdout) ==
    LET gpu_data == FirstLineFields(stdout) \o <<<<>>, <<>>, <<>>, <<>>>>
    IN  IF ~IsInt(gpu_data[2]) THEN [exc |-> "ValueError", snapshot |-> <<>>]
        ELSE IF ~IsInt(gpu_data[3]) THEN [exc |-> "ValueError", snapshot |-> <<>>]
        ELSE IF int(gpu_data[2]) = 0
                THEN [exc |-> "ZeroDivisionError", snapshot |-> <<>>]
        ELSE [exc |-> "none",
              snapshot |->
                  [gpu_util |-> gpu_data[1],
                   used_mem_percent |-> Percent(int(gpu_data[3]), int(gpu_data[2])),
                   total_mem |-> int(gpu_data[2]),
                   used_mem |-> int(gpu_data[3]),
                   free_mem |-> gpu_data[4],
                   temperature |-> gpu_data[5]]]

\* Lines 421-429: the exception raised ("none" if none) and the locals.
ParseStats(stdout) ==
    LET gpu_data == FirstLineFields(stdout)
        fail(e) == [exc |-> e, snapshot |-> <<>>]
    IN  IF Len(gpu_data) < 2 THEN fail("IndexError")
        ELSE IF ~IsInt(gpu_data[2]) THEN fail("ValueError")
        ELSE IF Len(gpu_data) < 3 THEN fail("IndexError")
        ELSE IF ~IsInt(gpu_data[3]) THEN fail("ValueError")
        ELSE IF Len(gpu_data) < 4 THEN fail("IndexError")
        ELSE IF Len(gpu_data) < 5 THEN fail("IndexError")
        ELSE IF int(gpu_data[2]) = 0 THEN fail("ZeroDivisionError")
        ELSE [exc |-> "none",
              snapshot |->
                  [gpu_util |-> gpu_data[1],
                   used_mem_percent |-> Percent(int(gpu_data[3]), int(gpu_data[2])),
                   total_mem |-> int(gpu_data[2]),
                   used_mem |-> int(gpu_data[3]),
                   free_mem |-> gpu_data[4],
                   temperature |-> gpu_data[5]]]

\* Lines 411-420: a request arrives and runs the command (no timeout=).
StatsRun ==
    /\ alive /\ stats.pc = "idle"
    /\ \E o \in StatsOutcomes :
          stats' = CASE o.kind = "raise" ->
                          [stats EXCEPT !.pc = "except", !.exc = "OSError"]
                     [] o.kind = "hang" -> [stats EXCEPT !.pc = "hung"]
                     [] OTHER -> [stats EXCEPT !.pc = "parse", !.result = o]
    /\ UNCHANGED <<procs, page, history, sampler, clock, iter, appended, iterStart, reader,
                   stopRequested, lateIter, alive>>

\* Lines 421-438: parse, then jsonify the snapshot
StatsParse ==
    /\ alive /\ stats.pc = "parse"
    /\ LET p == ParseStats(stats.result.stdout)
       IN  stats' = IF p.exc # "none"
                    THEN [stats EXCEPT !.pc = "except", !.exc = p.exc]
                    ELSE [stats EXCEPT !.pc = "done", !.resp = p.snapshot]
    /\ UNCHANGED <<procs, page, history, sampler, clock, iter, appended, iterStart, reader,
                   stopRequested, lateIter, alive>>

\* Lines 439-440: jsonify({"error": str(e)})
StatsExcept ==
    /\ alive /\ stats.pc = "except"
    /\ stats' = [stats EXCEPT !.pc = "done", !.resp = [error |-> stats.exc]]
    /\ UNCHANGED <<procs, page, history, sampler, clock, iter, appended, iterStart, reader,
                   stopRequested, lateIter, alive>>

\* The response has been sent.
StatsReturn ==
    /\ alive /\ stats.pc = "done"
    /\ stats' = StatsIdle
    /\ UNCHANGED <<procs, page, history, sampler, clock, iter, appended, iterStart, reader,
                   stopRequested, lateIter, alive>>

\* /api/stats requests alone: they share no state with the sampler.
StatsNext == StatsRun \/ StatsParse \/ StatsExcept \/ StatsReturn

StatsSpec == Init /\ [][StatsNext]_vars

(* ----------- fetch_gpu_processes, api_processes (/api/processes) ------- *)

F7 == <<"7">>
FPy == <<"p", "y">>

\* Fields of a line of the process query (pid, process_name, used_memory).
ProcTokens == {F7, FPy}

RECURSIVE ProcFieldSeqs(_)
ProcFieldSeqs(n) ==
    IF n = 0 THEN {<<>>}
    ELSE {Append(fs, t) : fs \in ProcFieldSeqs(n - 1), t \in ProcTokens}

\* Lines of one to four fields (a process name can hold ", ").
ProcLines == {Csv(fs) : fs \in UNION {ProcFieldSeqs(n) : n \in 1..ProcFields + 1}}

GoodProc == Csv(<<F7, FPy, F50>>)

\* Outputs of the process query: nothing, whitespace only, one line, two
\* lines, and lines around an empty, a blank or a short line.
ProcStdouts ==
    { <<>>, NL, <<" ", "\n">>, <<" ", "\n", "\t", "\n">> }
        \cup {l \o NL : l \in ProcLines}
        \cup {l1 \o NL \o l2 \o NL : l1 \in ProcLines, l2 \in ProcLines}
        \cup { GoodProc \o NL \o NL \o GoodProc \o NL,
               GoodProc \o NL \o <<" ">> \o NL \o GoodProc \o NL,
               GoodProc \o NL \o F7 \o NL \o GoodProc \o NL,
               NL \o GoodProc \o NL }

ProcOutcomes ==
    {Raised, Hung}
        \cup {Returned(out, 0) : out \in ProcStdouts}
        \cup {Returned(GoodProc \o NL, 1)}

\* As ParseProcesses without `if p`: an empty line is parsed like any other.
ParseProcessesKeepsEmpty(stdout) ==
    LET processes == Split(Strip(stdout), NL)
        fields(i) == Split(processes[i], Sep)
    IN  IF \E i \in 1..Len(processes) : Len(fields(i)) < ProcFields
        THEN [exc |-> "IndexError", list |-> <<>>]
        ELSE [exc |-> "none",
              list |-> [i \in 1..Len(processes) |->
                           [pid |-> fields(i)[1], name |-> fields(i)[2],
                            used_memory |-> fields(i)[3]]]]

\* As ParseProcesses, leaving out the lines that have fewer than three fields.
ParseProcessesSkipsShort(stdout) ==
    LET processes ==
            SelectSeq(Split(Strip(stdout), NL),
                      LAMBDA p : p # <<>> /\ Len(Split(p, Sep)) >= ProcFields)
        fields(i) == Split(processes[i], Sep)
    IN  [exc |-> "none",
         list |-> [i \in 1..Len(processes) |->
                      [pid |-> fields(i)[1], name |-> fields(i)[2],
                       used_memory |-> fields(i)[3]]]]

\* Lines 92-101: the exception the comprehension raises ("none" if none) and
\* the list it builds: one entry per non-empty line, IndexError at the first
\* line with fewer than three fields.
ParseProcesses(stdout) ==
    LET processes == SelectSeq(Split(Strip(stdout), NL), LAMBDA p : p # <<>>)
        fields(i) == Split(processes[i], Sep)
    IN  IF \E i \in 1..Len(processes) : Len(fields(i)) < ProcFields
        THEN [exc |-> "IndexError", list |-> <<>>]
        ELSE [exc |-> "none",
              list |-> [i \in 1..Len(processes) |->
                           [pid |-> fields(i)[1], name |-> fields(i)[2],
                            used_memory |-> fields(i)[3]]]]

\* Lines 442-447, 82-91: a request arrives and runs the command (no timeout=).
ProcRun ==
    /\ alive /\ procs.pc = "idle"
    /\ \E o \in ProcOutcomes :
          procs' = CASE o.kind = "raise" ->
                          [procs EXCEPT !.pc = "except", !.exc = "OSError"]
                     [] o.kind = "hang" -> [procs EXCEPT !.pc = "hung"]
                     [] OTHER -> [procs EXCEPT !.pc = "parse", !.result = o]
    /\ UNCHANGED <<history, sampler, clock, iter, appended, iterStart, reader,
                   stats, page, stopRequested, lateIter, alive>>

\* Lines 92-101, 447: the list is returned and jsonify'd
ProcParse ==
    /\ alive /\ procs.pc = "parse"
    /\ LET p == ParseProcesses(procs.result.stdout)
       IN  procs' = IF p.exc # "none"
                    THEN [procs EXCEPT !.pc = "except", !.exc = p.exc]
                    ELSE [procs EXCEPT !.pc = "done", !.resp = p.list]
    /\ UNCHANGED <<history, sampler, clock, iter, appended, iterStart, reader,
                   stats, page, stopRequested, lateIter, alive>>

\* Lines 102-104, 447: the error is printed, [] is returned and jsonify'd
ProcExcept ==
    /\ alive /\ procs.pc = "except"
    /\ procs' = [procs EXCEPT !.pc = "done", !.resp = <<>>]
    /\ UNCHANGED <<history, sampler, clock, iter, appended, iterStart, reader,
                   stats, page, stopRequested, lateIter, alive>>

\* The response has been sent.
ProcReturn ==
    /\ alive /\ procs.pc = "done"
    /\ procs' = StatsIdle
    /\ UNCHANGED <<history, sampler, clock, iter, appended, iterStart, reader,
                   stats, page, stopRequested, lateIter, alive>>

\* /api/processes requests alone: they share no state with the sampler.
ProcNext == ProcRun \/ ProcParse \/ ProcExcept \/ ProcReturn

ProcSpec == Init /\ [][ProcNext]_vars

(* ------------------ fetch_gpu_general_info, index (/) ------------------ *)

FGpu == <<"T", "4">>

\* Outputs of the name query (name, driver_version): one GPU, two GPUs, no
\* driver version, nothing.
InfoStdouts ==
    { Line(<<FGpu, F50>>),
      Line(<<FGpu, F50>>) \o Line(<<FGpu, F50>>),
      Line(<<FGpu>>),
      <<>> }

InfoOutcomes == {Raised, Hung} \cup {Returned(out, rc) : out \in InfoStdouts, rc \in {0, 1}}

\* Lines 72-73: the exception raised ("none" if none) and the dict returned.
ParseInfo(stdout) ==
    LET gpu_info == Split(Strip(stdout), Sep)
    IN  IF Len(gpu_info) < 2
        THEN [exc |-> "IndexError", info |-> <<>>]
        ELSE [exc |-> "none",
              info |-> [name |-> gpu_info[1], driver_version |-> gpu_info[2]]]

\* Lines 106-115, 62-71: a request arrives and runs the command (no timeout=).
PageRun ==
    /\ alive /\ page.pc = "idle"
    /\ \E o \in InfoOutcomes :
          page' = CASE o.kind = "raise" ->
                         [page EXCEPT !.pc = "except", !.exc = "OSError"]
                    [] o.kind = "hang" -> [page EXCEPT !.pc = "hung"]
                    [] OTHER -> [page EXCEPT !.pc = "parse", !.result = o]
    /\ UNCHANGED <<history, sampler, clock, iter, appended, iterStart, reader,
                   stats, procs, stopRequested, lateIter, alive>>

\* Lines 72-73, 117-394: the page is rendered with the name and the version
PageParse ==
    /\ alive /\ page.pc = "parse"
    /\ LET p == ParseInfo(page.result.stdout)
       IN  page' = IF p.exc # "none"
                   THEN [page EXCEPT !.pc = "except", !.exc = p.exc]
                   ELSE [page EXCEPT !.pc = "done", !.resp = p.info]
    /\ UNCHANGED <<history, sampler, clock, iter, appended, iterStart, reader,
                   stats, procs, stopRequested, lateIter, alive>>

\* Lines 74-76, 117-394: the page is rendered with "Unknown" twice
PageExcept ==
    /\ alive /\ page.pc = "except"
    /\ page' = [page EXCEPT
                   !.pc = "done",
                   !.resp = [name |-> "Unknown", driver_version |-> "Unknown"]]
    /\ UNCHANGED <<history, sampler, clock, iter, appended, iterStart, reader,
                   stats, procs, stopRequested, lateIter, alive>>

\* The response has been sent.
PageReturn ==
    /\ alive /\ page.pc = "done"
    /\ page' = StatsIdle
    /\ UNCHANGED <<history, sampler, clock, iter, appended, iterStart, reader,
                   stats, procs, stopRequested, lateIter, alive>>

PageNext == PageRun \/ PageParse \/ PageExcept \/ PageReturn

(* ------------- the four request handlers over a given buffer ----------- *)

\* The log after n iterations that each appended a sample, GoodA and GoodB
\* in turn, one per tick of the clock.
GoodLog(n) ==
    [i \in 1..n |->
        LET p == ParsedSample[IF i % 2 = 1 THEN GoodA ELSE GoodB]
        IN  [timestamp |-> i, gpu_util |-> p.gpu_util,
             used_mem_percent |-> p.used_mem_percent]]

\* `history` after these n iterations.
GoodHistory(n) ==
    [k \in KeySet |->
        LastN([i \in 1..n |->
                  CASE k = "timestamps" -> GoodLog(n)[i].timestamp
                    [] k = "gpu_util" -> GoodLog(n)[i].gpu_util
                    [] k = "used_mem_percent" -> GoodLog(n)[i].used_mem_percent])]

\* The program between two iterations of the sampler, after 0, 1, ... and
\* Capacity + 1 iterations (the buffer empty, filling, full, full with a
\* sample evicted), and no request being served.
FrameInit ==
    \E n \in 0..(Capacity + 1) :
       /\ history = GoodHistory(n)
       /\ sampler = SamplerIdle
       /\ clock = n + 1
       /\ iter = n
       /\ appended = GoodLog(n)
       /\ iterStart = IF n = 0 THEN EmptyHistory ELSE GoodHistory(n - 1)
       /\ reader = [pc |-> "idle", resp |-> <<>>, quiet |-> FALSE]
       /\ stats = StatsIdle
       /\ procs = StatsIdle
       /\ page = StatsIdle
       /\ stopRequested = FALSE
       /\ lateIter = FALSE
       /\ alive = TRUE

\* Requests of the four kinds, served one after the other while the sampler
\* is between two iterations.
FrameNext ==
    \/ stats.pc = "idle" /\ procs.pc = "idle" /\ page.pc = "idle" /\ ReaderNext
    \/ reader.pc = "idle" /\ procs.pc = "idle" /\ page.pc = "idle" /\ StatsNext
    \/ reader.pc = "idle" /\ stats.pc = "idle" /\ page.pc = "idle" /\ ProcNext
    \/ reader.pc = "idle" /\ stats.pc = "idle" /\ procs.pc = "idle" /\ PageNext

FrameSpec == FrameInit /\ [][FrameNext]_vars

(* ------------------- the percentage, on both paths --------------------- *)

\* The first iteration of the sampler and an /api/stats request, each with
\* the output of its command in hand (a line of CalcStdouts, of
\* CalcStatsStdouts).
CalcInit ==
    /\ history = EmptyHistory
    /\ \E out \in CalcStdouts :
          sampler = [SamplerIdle EXCEPT !.pc = "parse", !.result = Returned(out, 0)]
    /\ clock = 1
    /\ iter = 1
    /\ appended = <<>>
    /\ iterStart = EmptyHistory
    /\ reader = [pc |-> "idle", resp |-> <<>>, quiet |-> FALSE]
    /\ \E out \in CalcStatsStdouts :
          stats = [StatsIdle EXCEPT !.pc = "parse", !.result = Returned(out, 0)]
    /\ procs = StatsIdle
    /\ page = StatsIdle
    /\ stopRequested = FALSE
    /\ lateIter = FALSE
    /\ alive = TRUE

\* The rest of the iteration and of the request.
CalcNext ==
    \/ SamplerParse \/ SamplerAppendTs \/ SamplerAppendUtil \/ SamplerAppendMem
    \/ SamplerCheck \/ SamplerExcept
    \/ StatsParse \/ StatsExcept \/ StatsReturn

CalcSpec == CalcInit /\ [][CalcNext]_vars

(* ======================= properties of the program ===================== *)

\* The value a sample contributes to the series k.
Entry(sample, k) ==
    CASE k = "timestamps" -> sample.timestamp
      [] k = "gpu_util" -> sample.gpu_util
      [] k = "used_mem_percent" -> sample.used_mem_percent

\* The last Capacity samples of a log, as the three series of `history`.
Window(log) ==
    LET n == Len(log)
        m == IF n < Capacity THEN n ELSE Capacity
    IN  [k \in KeySet |-> [i \in 1..m |-> Entry(log[n - m + i], k)]]

\* The /api/data response is complete.
ReadDone == reader.pc = "done"

\* C1: every history series holds at most Capacity entries, in every state
\* (also between the appends and the truncation of an iteration) and in every
\* series a /api/data request has read.
C1_NeverExceedsCapacity ==
    /\ \A k \in KeySet : Len(history[k]) <= Capacity
    /\ \A k \in DOMAIN reader.resp : Len(reader.resp[k]) <= Capacity

\* C2: in a complete /api/data response the three series have one length and
\* index i of the three holds the values of one appended sample.
C2_NoTornRead ==
    ReadDone =>
        LET r == reader.resp
        IN  /\ Len(r["gpu_util"]) = Len(r["timestamps"])
            /\ Len(r["used_mem_percent"]) = Len(r["timestamps"])
            /\ \A i \in 1..Len(r["timestamps"]) :
                  \E j \in 1..Len(appended) :
                     /\ appended[j].timestamp = r["timestamps"][i]
                     /\ appended[j].gpu_util = r["gpu_util"][i]
                     /\ appended[j].used_mem_percent = r["used_mem_percent"][i]

\* C3: between iterations `history` holds exactly the last Capacity appended
\* samples (all of them when there are fewer) in insertion order, and a
\* /api/data request served while no iteration runs returns exactly that.
C3_LastNInOrder ==
    /\ sampler.pc \in {"run", "sleep"} => history = Window(appended)
    /\ (ReadDone /\ reader.quiet) => reader.resp = Window(appended)

\* C3 witness: a quiet read after more appends than the window holds.
C3_Witness ==
    /\ ReadDone /\ reader.quiet
    /\ Len(appended) > Capacity
    /\ reader.resp = Window(appended)

\* The output of the history query cannot be turned into a sample: a field is
\* missing, utilization, total or used is not a number, or total is zero.
Unusable(stdout) ==
    LET f == FirstLineFields(stdout)
    IN  \/ Len(f) < 3
        \/ ~IsInt(f[1]) \/ ~IsInt(f[2]) \/ ~IsInt(f[3])
        \/ int(f[2]) = 0

\* The current sampler iteration is one that fails.
IterationFails ==
    /\ sampler.pc # "run"
    /\ \/ sampler.exc = "OSError"
       \/ sampler.result.kind = "returned" /\ Unusable(sampler.result.stdout)

\* C4: throughout an iteration that fails (the command cannot be started, or
\* its output is unusable) `history` is what it was when the iteration began.
C4_FailedIterationKeepsHistory == IterationFails => history = iterStart

\* C4 witness: an iteration failed on a zero total with samples in the buffer.
C4_Witness ==
    /\ sampler.pc = "sleep"
    /\ IterationFails
    /\ sampler.exc = "ZeroDivisionError"
    /\ Len(history["timestamps"]) > 0
    /\ history = iterStart

\* C5: an iteration whose command returned or could not be started never ends
\* the loop: the thread reaches the top of `while True` again (unless the
\* process exits first).
C5_LoopSurvivesFailure ==
    (sampler.pc \in {"parse", "except"}) ~> (sampler.pc = "run" \/ ~alive)

\* C5 witness: the first iteration failed and a later one appended its sample.
C5_Witness ==
    /\ sampler.pc = "run"
    /\ iter >= 2
    /\ appended # <<>>
    /\ appended[1].timestamp > 1

\* C6: when the command never returns, the iteration ends all the same and the
\* sampler comes back to the top of its loop (unless the process exits first).
C6_HangTimesOut == (sampler.pc = "hung") ~> (sampler.pc = "run" \/ ~alive)

\* C7: an iteration that begins after the shutdown request appends nothing.
C7_NoAppendAfterStop == [][lateIter => history' = history]_vars

\* The /api/stats response is complete.
StatsDone == stats.pc = "done"

\* The response is an error object: an "error" entry and nothing else.
IsErrorResult(resp) == DOMAIN resp = {"error"}

\* C8: /api/stats answers with an error object, and no snapshot field, when
\* the command cannot be started, the line has fewer than five fields, total
\* or used is not a number, or total is zero.
C8_StatsErrorTagged ==
    StatsDone =>
        LET f == FirstLineFields(stats.result.stdout)
        IN  (\/ stats.result.kind # "returned"
             \/ Len(f) < StatsFields
             \/ ~IsInt(f[2]) \/ ~IsInt(f[3])
             \/ int(f[2]) = 0)
                => IsErrorResult(stats.resp)

\* C8 witness: a four-field line with numeric memory fields got an error.
C8_Witness ==
    /\ StatsDone
    /\ stats.result.kind = "returned"
    /\ Len(FirstLineFields(stats.result.stdout)) = StatsFields - 1
    /\ IsInt(FirstLineFields(stats.result.stdout)[2])
    /\ IsInt(FirstLineFields(stats.result.stdout)[3])
    /\ IsErrorResult(stats.resp)

\* C9: when the command exits with a non-zero status, /api/stats answers with
\* an error object whatever the command printed.
C9_NonZeroExitIsError ==
    (StatsDone /\ stats.result.kind = "returned" /\ stats.result.returncode # 0)
        => "error" \in DOMAIN stats.resp

\* C10: when one of the five fields of the line is not a number, /api/stats
\* answers with an error object (stated for a command that exits with 0).
C10_NonNumericFieldIsError ==
    (StatsDone /\ stats.result.kind = "returned" /\ stats.result.returncode = 0) =>
        LET f == FirstLineFields(stats.result.stdout)
        IN  (Len(f) >= StatsFields /\ \E i \in 1..StatsFields : ~IsInt(f[i]))
                => "error" \in DOMAIN stats.resp

\* The /api/processes response is complete.
ProcDone == procs.pc = "done"

\* The output holds nothing but whitespace.
Blank(stdout) == \A i \in 1..Len(stdout) : stdout[i] \in Whitespace

\* C11: when the process query prints nothing, or whitespace only, the
\* response is the empty list and no error was raised on the way.
C11_EmptyOutputEmptyList ==
    (ProcDone /\ procs.result.kind = "returned" /\ Blank(procs.result.stdout))
        => (procs.resp = <<>> /\ procs.exc = "none")

\* C11 witness: whitespace-only output was answered with the empty list.
C11_Witness ==
    /\ ProcDone
    /\ procs.result.kind = "returned"
    /\ procs.result.stdout # <<>> /\ Blank(procs.result.stdout)
    /\ procs.resp = <<>> /\ procs.exc = "none"

\* C12: when fetching the processes fails (the command cannot be started, a
\* line cannot be parsed) the response differs from the one for "no
\* processes", the empty list.
C12_FailureIsDistinguishable ==
    (ProcDone /\ procs.exc # "none") => procs.resp # <<>>

\* The non-empty lines the process query printed, in output order.
OutputLines(stdout) ==
    SelectSeq(Split(Strip(stdout), NL), LAMBDA l : l # <<>>)

\* The entry a line of at least three fields stands for.
ProcessEntry(l) ==
    [pid |-> Split(l, Sep)[1], name |-> Split(l, Sep)[2],
     used_memory |-> Split(l, Sep)[3]]

\* The line has fewer than three ", "-separated fields.
Short(l) == Len(Split(l, Sep)) < ProcFields

\* C18: the response is either one entry per non-empty output line, in output
\* order (when every such line has three fields), or the empty list (when the
\* command could not start or some line is short); it is never a non-empty
\* list that leaves lines out.
C18_AllLinesOrNone ==
    ProcDone =>
        IF procs.result = Unset
        THEN procs.resp = <<>>
        ELSE LET lines == OutputLines(procs.result.stdout)
             IN  IF \E i \in 1..Len(lines) : Short(lines[i])
                 THEN procs.resp = <<>>
                 ELSE /\ Len(procs.resp) = Len(lines)
                      /\ \A i \in 1..Len(lines) :
                            procs.resp[i] = ProcessEntry(lines[i])

\* C18 witness: one response with an entry for each of two lines, one response
\* that is empty although one of the lines was well-formed.
C18_Witness ==
    /\ ProcDone
    /\ procs.result # Unset
    /\ LET lines == OutputLines(procs.result.stdout)
       IN  /\ Len(lines) = 2
           /\ ~Short(lines[1])
           /\ \/ ~Short(lines[2]) /\ Len(procs.resp) = 2
              \/ Short(lines[2]) /\ procs.resp = <<>>

\* C13: the timestamps in the buffer are non-decreasing in buffer order, in
\* every state, the clock being read once per iteration and never set back.
C13_TimestampsNonDecreasing ==
    \A i \in 1..Len(history["timestamps"]) :
       \A j \in i..Len(history["timestamps"]) :
          history["timestamps"][i] <= history["timestamps"][j]

\* C13 witness: the buffer is full, a sample has been evicted, and the two
\* newest samples are separated by an iteration that appended nothing.
C13_Witness ==
    /\ sampler.pc = "sleep"
    /\ Len(appended) > Capacity
    /\ Len(history["timestamps"]) = Capacity
    /\ history["timestamps"][1] = appended[Len(appended) - Capacity + 1].timestamp
    /\ history["timestamps"][Capacity] > history["timestamps"][Capacity - 1] + 1

\* The sampler is between two iterations: before the first one, or after the
\* body of the loop has ended (with a sample, or with an exception handled).
BetweenIterations == sampler.pc \in {"run", "sleep"}

\* C19: between iterations the three series have one common length
\* L <= Capacity, index i of each series belongs to the same appended sample,
\* and L is not less than it was between the previous iterations (iterStart
\* is the buffer as the latest iteration found it): once Capacity, it stays.
C19_AlignedAndGrowing ==
    BetweenIterations =>
        LET L == Len(history["timestamps"])
            L0 == Len(iterStart["timestamps"])
        IN  /\ \A k \in KeySet : Len(history[k]) = L /\ Len(iterStart[k]) = L0
            /\ L <= Capacity
            /\ L <= Len(appended)
            /\ \A i \in 1..L : \A k \in KeySet :
                  history[k][i] = Entry(appended[Len(appended) - L + i], k)
            /\ L0 <= L
            /\ (L0 = Capacity => L = Capacity)

\* C19 witness: an iteration that found the buffer full has appended a sample
\* and ended, and the buffer is full again.
C19_Witness ==
    /\ sampler.pc = "sleep"
    /\ Len(iterStart["timestamps"]) = Capacity
    /\ Len(history["timestamps"]) = Capacity
    /\ history # iterStart

\* C20: in every state no series holds more than Capacity + 1 entries and the
\* lengths of two series differ by at most 1.
C20_OvershootBounded ==
    \A k \in KeySet :
       /\ Len(history[k]) <= Capacity + 1
       /\ \A l \in KeySet : Len(history[k]) - Len(history[l]) <= 1

\* C20 witness: the truncation has shortened the first series to Capacity
\* while the other two still hold Capacity + 1 entries.
C20_Witness ==
    /\ sampler.pc = "trunc"
    /\ Len(history["timestamps"]) = Capacity
    /\ Len(history["gpu_util"]) = Capacity + 1
    /\ Len(history["used_mem_percent"]) = Capacity + 1

\* The first line of an output, blanks around the output set aside: what
\* comes before the first line feed.
FirstLine(stdout) ==
    LET t == Strip(stdout)
        ends == {i \in 1..Len(t) : t[i] = "\n"}
        n == IF ends = {} THEN Len(t) + 1
             ELSE CHOOSE i \in ends : \A j \in ends : i <= j
    IN  SubSeq(t, 1, n - 1)

\* A line that yields no sample: a field is missing or not a number, or the
\* total is zero.
UnusableLine(l) ==
    LET f == Split(l, Sep)
    IN  \/ Len(f) < 3
        \/ \E i \in 1..3 : ~IsInt(f[i])
        \/ int(f[2]) = 0

\* What the first line of each output of the history query stands for:
\* nothing, or the utilization and the memory percentage of a sample.
FirstLineSample ==
    [out \in {o.stdout : o \in SamplerOutcomes} |->
        LET l == FirstLine(out)
            f == Split(l, Sep)
        IN  IF UnusableLine(l)
            THEN [usable |-> FALSE, gpu_util |-> 0, used_mem_percent |-> Ratio(0, 1)]
            ELSE [usable |-> TRUE, gpu_util |-> int(f[1]),
                  used_mem_percent |-> Percent(int(f[3]), int(f[2]))]]

\* C17: an iteration appends at most one sample; when the three appends are
\* done the buffer is what the iteration found plus the sample of the first
\* output line (stamped with the iteration's clock), whatever the other lines
\* are; when the first line is unusable the buffer stays what the iteration
\* found.
C17_OnlyFirstLineCounts ==
    /\ \A k \in KeySet :
          sampler.pc \in {"parse", "append_ts", "append_util", "append_mem",
                          "check", "except"}
              => Len(history[k]) <= Len(iterStart[k]) + 1
    /\ sampler.pc = "check"
          => LET first == FirstLineSample[sampler.result.stdout]
             IN  /\ first.usable
                 /\ history["timestamps"] = Append(iterStart["timestamps"], clock)
                 /\ history["gpu_util"] =
                       Append(iterStart["gpu_util"], first.gpu_util)
                 /\ history["used_mem_percent"] =
                       Append(iterStart["used_mem_percent"], first.used_mem_percent)
    /\ (/\ sampler.pc \notin {"run", "hung"}
        /\ sampler.result # Unset
        /\ ~FirstLineSample[sampler.result.stdout].usable)
          => history = iterStart

\* C17 witness: the command printed two usable, different lines and the
\* sample of the first one has been appended.
C17_Witness ==
    /\ sampler.pc = "check"
    /\ LET lines == Split(Strip(sampler.result.stdout), NL)
       IN  /\ Len(lines) = 2
           /\ ~UnusableLine(lines[2])
           /\ lines[1] # lines[2]
    /\ history # iterStart

\* The samples log[a], ..., log[b] as the three series of `history`.
Run(log, a, b) ==
    [k \in KeySet |-> [i \in 1..(b - a + 1) |-> Entry(log[a + i - 1], k)]]

\* C16: a complete /api/data response is a contiguous run of the appended
\* samples, in append order and without repetition.  (The claim also asks
\* that the run ends with a recent sample; this part alone already fails.)
C16_ReadIsContiguousRun ==
    ReadDone =>
        \E a \in 1..(Len(appended) + 1) :
           \E b \in (a - 1)..Len(appended) :
              reader.resp = Run(appended, a, b)

\* The /api/stats response the outcome of its command stands for.
StatsAnswer(st) ==
    IF st.exc = "OSError" THEN [error |-> "OSError"]
    ELSE LET p == ParseStats(st.result.stdout)
         IN  IF p.exc # "none" THEN [error |-> p.exc] ELSE p.snapshot

\* The /api/processes response the outcome of its command stands for.
ProcAnswer(pr) ==
    IF pr.exc = "OSError" THEN <<>> ELSE ParseProcesses(pr.result.stdout).list

\* C14: no step of a request handler (/api/data, /api/stats, /api/processes,
\* the index page) changes `history`, whether the request succeeds or fails,
\* and a complete /api/stats or /api/processes response is the one its
\* command's outcome stands for, whatever the buffer holds.
C14_HandlersLeaveHistory ==
    [][/\ history' = history
       /\ stats'.pc = "done" => stats'.resp = StatsAnswer(stats')
       /\ procs'.pc = "done" => procs'.resp = ProcAnswer(procs')]_vars

\* C14 witness: the buffer is full, still as the sampler left it, and a
\* complete /api/data response holds it.
C14_Witness ==
    /\ ReadDone
    /\ Len(history["timestamps"]) = Capacity
    /\ history = GoodHistory(Len(appended))
    /\ reader.resp = history

\* p is used/total*100, for the memory fields (second: total, third: used) of
\* the first line of an output.
IsPercentOf(p, stdout) ==
    LET f == Split(FirstLine(stdout), Sep)
    IN  /\ p.den > 0
        /\ p.num * int(f[2]) = p.den * int(f[3]) * 100
        /\ (f[2] = F8192 /\ f[3] = F4096) => p = [num |-> 50, den |-> 1]

\* C15: the percentage of a sample the sampler has appended, and of a
\* snapshot /api/stats returns, is used/total*100 for the memory fields of
\* the line it was read from; it is 50 for total 8192 and used 4096.
C15_PercentIsUsedOverTotal ==
    /\ sampler.pc = "check"
          => IsPercentOf(history["used_mem_percent"][Len(history["used_mem_percent"])],
                         sampler.result.stdout)
    /\ (StatsDone /\ stats.exc = "none")
          => IsPercentOf(stats.resp.used_mem_percent, stats.result.stdout)

\* C15 witness: a sample and a snapshot for total 8192 and used 4096, both
\* with 50 percent.
C15_Witness ==
    /\ sampler.pc = "check"
    /\ sampler.result.stdout = Line(<<F40, F8192, F4096>>)
    /\ history["used_mem_percent"] = <<[num |-> 50, den |-> 1]>>
    /\ StatsDone
    /\ stats.result.stdout = Line(<<F40, F8192, F4096, F50, F50>>)
    /\ stats.resp.used_mem_percent = [num |-> 50, den |-> 1]

====
